---- MODULE Spec2Model ----
(***************************************************************************)
(* Model of the cocktail menu web application (src/app.py).                *)
(*                                                                         *)
(* Python text (str) is a sequence of one-character strings, so that       *)
(* lower(), title(), split(), substring tests and float()/int() parsing    *)
(* are computed character by character.  The two non-ASCII characters of   *)
(* the whitelist entry at src/app.py:163 are written "U+00C3" and          *)
(* "U+00A7"; "U+00E3" is the lower case of "U+00C3".                       *)
(* Cocktail names and dictionary keys that the code never transforms are   *)
(* plain strings.                                                          *)
(***************************************************************************)
EXTENDS Integers, Sequences, FiniteSets, TLC

VARIABLES
    ingredients_file,   \* content of INGREDIENTS_STATE_FILE: name -> BOOLEAN
    overrides_file,     \* content of COCKTAILS_OVERRIDES_FILE: cocktail -> BOOLEAN
    session,            \* per client, the Flask session cookie (a dict)
    response,           \* the last response sent
    req,                \* per worker, the locals of the request it is serving
    cocktail_in,        \* classifier: the cocktail handed to get_main_alcohol
    lang_in,            \* classifier: the lang argument
    group               \* classifier: the label returned (<<>> before the call)

vars == <<ingredients_file, overrides_file, session, response, req,
          cocktail_in, lang_in, group>>

(***************************************************************************)
(* Python str operations                                                   *)
(***************************************************************************)
Uppers == <<"A","B","C","D","E","F","G","H","I","J","K","L","M","N","O","P",
            "Q","R","S","T","U","V","W","X","Y","Z","U+00C3">>
Lowers == <<"a","b","c","d","e","f","g","h","i","j","k","l","m","n","o","p",
            "q","r","s","t","u","v","w","x","y","z","U+00E3">>
DigitChars == <<"0","1","2","3","4","5","6","7","8","9">>

IndexIn(c, seq) == CHOOSE i \in 1..Len(seq) : seq[i] = c
IsIn(c, seq) == \E i \in 1..Len(seq) : seq[i] = c
IsCased(c) == IsIn(c, Uppers) \/ IsIn(c, Lowers)
IsDigit(c) == IsIn(c, DigitChars)
IsSpace(c) == c \in {" ", "\t", "\n"}

LowerChar(c) == IF IsIn(c, Uppers) THEN Lowers[IndexIn(c, Uppers)] ELSE c
UpperChar(c) == IF IsIn(c, Lowers) THEN Uppers[IndexIn(c, Lowers)] ELSE c

\* str.lower()
str_lower(s) == [i \in 1..Len(s) |-> LowerChar(s[i])]

\* str.title(): a cased character is upper-cased after an uncased one (or at
\* the start) and lower-cased after a cased one.
str_title(s) ==
    [i \in 1..Len(s) |->
        IF IsCased(s[i])
        THEN IF i > 1 /\ IsCased(s[i-1]) THEN LowerChar(s[i]) ELSE UpperChar(s[i])
        ELSE s[i]]

\* sub in s
str_contains(sub, s) ==
    \E k \in 0..(Len(s) - Len(sub)) : \A j \in 1..Len(sub) : s[k+j] = sub[j]

\* str.split(): the maximal runs of non-whitespace characters, in order.
RECURSIVE str_split_from(_, _, _)
str_split_from(s, i, cur) ==
    IF i > Len(s) THEN (IF cur = <<>> THEN <<>> ELSE <<cur>>)
    ELSE IF IsSpace(s[i])
         THEN (IF cur = <<>> THEN <<>> ELSE <<cur>>) \o str_split_from(s, i+1, <<>>)
         ELSE str_split_from(s, i+1, Append(cur, s[i]))
str_split(s) == str_split_from(s, 1, <<>>)

\* str(n) of an int
RECURSIVE NatToStr(_)
NatToStr(n) ==
    IF n < 10 THEN <<DigitChars[n+1]>>
    ELSE Append(NatToStr(n \div 10), DigitChars[(n % 10) + 1])
IntToStr(n) == IF n < 0 THEN <<"-">> \o NatToStr(-n) ELSE NatToStr(n)

(***************************************************************************)
(* float() and int() of a token.  A number is the record [n, d] standing   *)
(* for n/d; d = 0 stands for inf (n # 0) and nan (n = 0).  ok = FALSE      *)
(* stands for ValueError.                                                  *)
(***************************************************************************)
Num(n, d) == [ok |-> TRUE, n |-> n, d |-> d]
ValueError == [ok |-> FALSE, n |-> 0, d |-> 1]

RECURSIVE Pow10(_)
Pow10(k) == IF k = 0 THEN 1 ELSE 10 * Pow10(k-1)

\* digitpart ::= digit (["_"] digit)*
IsDigitPart(s) ==
    /\ Len(s) > 0
    /\ \A i \in 1..Len(s) :
          \/ IsDigit(s[i])
          \/ /\ s[i] = "_"
             /\ 1 < i /\ i < Len(s)
             /\ IsDigit(s[i-1]) /\ IsDigit(s[i+1])

RECURSIVE DigitsValue(_)
DigitsValue(s) ==
    IF s = <<>> THEN 0
    ELSE LET front == SubSeq(s, 1, Len(s)-1)
             c == s[Len(s)]
         IN IF c = "_" THEN DigitsValue(front)
            ELSE 10 * DigitsValue(front) + (IndexIn(c, DigitChars) - 1)

NumDigits(s) == Cardinality({i \in 1..Len(s) : IsDigit(s[i])})

HasSign(t) == Len(t) > 0 /\ t[1] \in {"+", "-"}
Unsigned(t) == IF HasSign(t) THEN Tail(t) ELSE t
SignOf(t) == IF Len(t) > 0 /\ t[1] = "-" THEN -1 ELSE 1

\* number ::= [digitpart] "." digitpart | digitpart ["."]
IsPointNumber(m) ==
    LET dots == {i \in 1..Len(m) : m[i] = "."}
    IN IF dots = {} THEN IsDigitPart(m)
       ELSE /\ Cardinality(dots) = 1
            /\ LET p == CHOOSE i \in dots : TRUE
                   ip == SubSeq(m, 1, p-1)
                   fp == SubSeq(m, p+1, Len(m))
               IN \/ IsDigitPart(fp) /\ (ip = <<>> \/ IsDigitPart(ip))
                  \/ fp = <<>> /\ IsDigitPart(ip)

PointNumberValue(m) ==
    LET dots == {i \in 1..Len(m) : m[i] = "."}
    IN IF dots = {} THEN Num(DigitsValue(m), 1)
       ELSE LET p == CHOOSE i \in dots : TRUE
                ip == SubSeq(m, 1, p-1)
                fp == SubSeq(m, p+1, Len(m))
            IN Num(DigitsValue(ip \o fp), Pow10(NumDigits(fp)))

\* floatnumber ::= number [("e" | "E") [sign] digitpart]
ExpPositions(m) == {i \in 1..Len(m) : m[i] \in {"e", "E"}}

IsFloatNumber(m) ==
    LET es == ExpPositions(m)
    IN IF es = {} THEN IsPointNumber(m)
       ELSE /\ Cardinality(es) = 1
            /\ LET p == CHOOSE i \in es : TRUE
               IN /\ IsPointNumber(SubSeq(m, 1, p-1))
                  /\ IsDigitPart(Unsigned(SubSeq(m, p+1, Len(m))))

FloatNumberValue(m) ==
    LET es == ExpPositions(m)
    IN IF es = {} THEN PointNumberValue(m)
       ELSE LET p == CHOOSE i \in es : TRUE
                v == PointNumberValue(SubSeq(m, 1, p-1))
                x == SubSeq(m, p+1, Len(m))
                k == DigitsValue(Unsigned(x))
            IN IF SignOf(x) < 0 THEN Num(v.n, v.d * Pow10(k))
               ELSE Num(v.n * Pow10(k), v.d)

\* float(token): [sign] (floatnumber | "inf" | "infinity" | "nan"), the
\* words in any case.  The token comes from split() and holds no whitespace.
ParseFloat(t) ==
    LET u == Unsigned(t)
        w == str_lower(u)
    IN IF w \in {<<"i","n","f">>, <<"i","n","f","i","n","i","t","y">>}
       THEN Num(SignOf(t), 0)
       ELSE IF w = <<"n","a","n">> THEN Num(0, 0)
       ELSE IF IsFloatNumber(u)
            THEN LET v == FloatNumberValue(u) IN Num(SignOf(t) * v.n, v.d)
            ELSE ValueError

\* int(token): [sign] digitpart
ParseInt(t) ==
    IF IsDigitPart(Unsigned(t))
    THEN Num(SignOf(t) * DigitsValue(Unsigned(t)), 1)
    ELSE ValueError

GreaterThanZero_OrEqual(q) == q.n >= 0

\* qty_num > 0 (nan compares false)
GreaterThanZero(q) == q.n > 0

(***************************************************************************)
(* Values read from YAML/JSON carry their Python type: a str, an int or a  *)
(* dict (a function from keys to values).                                   *)
(***************************************************************************)
PyStr(v) == [t |-> "str", v |-> v]
PyInt(n) == [t |-> "int", v |-> n]
PyDict(f) == [t |-> "dict", v |-> f]
EmptyDict == [k \in {} |-> <<>>]

\* str(value)
py_str(x) == IF x.t = "int" THEN IntToStr(x.v) ELSE x.v

\* Keys of a cocktail mapping: get_main_alcohol lower-cases them.
K_name == <<"n","a","m","e">>
K_ingredients == <<"i","n","g","r","e","d","i","e","n","t","s">>
K_category == <<"c","a","t","e","g","o","r","y">>
K_Category == <<"C","a","t","e","g","o","r","y">>

Other == <<"O","t","h","e","r">>
Autre == <<"A","u","t","r","e">>

\* dict.get(key, default)
Get(d, k, default) == IF k \in DOMAIN d THEN d[k] ELSE default

LocalizedName(name, lang) ==
    LET n == IF name.t = "str" THEN PyDict([en |-> name.v]) ELSE name
    IN IF n.t # "dict" \/ "en" \notin DOMAIN n.v THEN <<>>
       ELSE IF lang = "fr" /\ "fr" \notin DOMAIN n.v THEN n.v["en"]
       ELSE Get(n.v, lang, n.v["en"])

get_ingredient_name(ingredient, lang) ==
    LocalizedName(Get(ingredient, "name", PyDict(EmptyDict)), lang)

get_ingredient_name_en(ingredient) == get_ingredient_name(ingredient, "en")

get_category_name(category, lang) == LocalizedName(category, lang)

\* cocktail.get('ingredients', [])
IngredientsOf(cocktail) == Get(cocktail, K_ingredients, <<>>)

alcohol_whitelist == <<
    <<"r","u","m">>,
    <<"w","h","i","t","e"," ","r","u","m">>,
    <<"d","a","r","k"," ","r","u","m">>,
    <<"a","g","e","d"," ","r","u","m">>,
    <<"s","p","i","c","e","d"," ","r","u","m">>,
    <<"g","i","n">>,
    <<"o","l","d"," ","t","o","m"," ","g","i","n">>,
    <<"p","l","y","m","o","u","t","h"," ","g","i","n">>,
    <<"p","i","n","k"," ","g","i","n">>,
    <<"v","o","d","k","a">>,
    <<"w","h","i","s","k","e","y">>,
    <<"w","h","i","s","k","y">>,
    <<"r","y","e"," ","w","h","i","s","k","e","y">>,
    <<"b","o","u","r","b","o","n">>,
    <<"s","c","o","t","c","h"," ","w","h","i","s","k","y">>,
    <<"i","r","i","s","h"," ","w","h","i","s","k","e","y">>,
    <<"j","a","p","a","n","e","s","e"," ","w","h","i","s","k","y">>,
    <<"t","e","q","u","i","l","a">>,
    <<"m","e","z","c","a","l">>,
    <<"b","r","a","n","d","y">>,
    <<"c","o","g","n","a","c">>,
    <<"a","r","m","a","g","n","a","c">>,
    <<"c","a","c","h","a","U+00C3","U+00A7","a">>,
    <<"p","i","s","c","o">>,
    <<"a","p","e","r","o","l">>,
    <<"c","a","m","p","a","r","i">>,
    <<"c","o","i","n","t","r","e","a","u">>,
    <<"p","r","o","s","e","c","c","o">>,
    <<"c","h","a","m","p","a","g","n","e">>,
    <<"s","p","a","r","k","l","i","n","g"," ","w","i","n","e">>,
    <<"r","e","d"," ","p","o","r","t">>,
    <<"p","o","r","t">>,
    <<"s","h","e","r","r","y">>,
    <<"l","i","q","u","e","u","r">>,
    <<"l","i","q","u","e","u","r","s">> >>

\* sorted(alcohol_whitelist, key=len, reverse=True): stable, so terms of equal
\* length keep the order of the list.
RECURSIVE SortedByLenDesc(_)
SortedByLenDesc(terms) ==
    IF terms = <<>> THEN <<>>
    ELSE LET front == SortedByLenDesc(SubSeq(terms, 1, Len(terms)-1))
             x == terms[Len(terms)]
             k == Cardinality({i \in 1..Len(front) : Len(front[i]) >= Len(x)})
         IN SubSeq(front, 1, k) \o <<x>> \o SubSeq(front, k+1, Len(front))

SortedWhitelist == SortedByLenDesc(alcohol_whitelist)

\* The inner loop (lines 180-183): the first term, longest first, that the
\* lower-cased name contains; <<>> stands for None.
RECURSIVE FirstContained(_, _, _)
FirstContained(terms, i, name_lower) ==
    IF i > Len(terms) THEN <<>>
    ELSE IF str_contains(terms[i], name_lower) THEN terms[i]
    ELSE FirstContained(terms, i+1, name_lower)

matched_alcohol_whitelist(ingredient) ==
    FirstContained(SortedWhitelist, 1,
                   str_lower(get_ingredient_name(ingredient, "en")))

ContainsAny(words, s) == \E w \in words : str_contains(w, s)

NumericQty_LeadingDigits(qty_parts) ==
    IF qty_parts = <<>> THEN Num(0, 1)
    ELSE LET t == qty_parts[1]
             k == CHOOSE j \in 0..Len(t) :
                     /\ \A i \in 1..j : IsDigit(t[i])
                     /\ j < Len(t) => ~IsDigit(t[j+1])
         IN Num(DigitsValue(SubSeq(t, 1, k)), 1)

\* Lines 198-208: the first token as a float, else as an int, else 0.
NumericQty(qty_parts) ==
    IF qty_parts = <<>> THEN Num(0, 1)
    ELSE LET f == ParseFloat(qty_parts[1])
             n == ParseInt(qty_parts[1])
         IN IF f.ok THEN f ELSE IF n.ok THEN n ELSE Num(0, 1)

\* Lines 188-208.
qty_num(ingredient) ==
    LET qty == Get(ingredient, "qty", PyInt(0))
        qty_str == str_lower(py_str(qty))
    IN IF ContainsAny({<<"d","a","s","h">>, <<"d","r","o","p">>,
                       <<"t","e","a","s","p","o","o","n">>,
                       <<"b","a","r"," ","s","p","o","o","n">>}, qty_str)
       THEN Num(1, 1)
       ELSE IF ContainsAny({<<"t","o","p">>, <<"s","p","l","a","s","h">>,
                            <<"o","n"," ","t","o","p">>}, qty_str)
       THEN Num(0, 1)
       ELSE NumericQty(str_split(py_str(qty)))

\* The outer loop (lines 172-214) from ingredient i on.
RECURSIVE ScanIngredients(_, _, _)
ScanIngredients(ings, i, lang) ==
    IF i > Len(ings) THEN (IF lang = "fr" THEN Autre ELSE Other)
    ELSE LET m == matched_alcohol_whitelist(ings[i])
         IN IF m # <<>> /\ GreaterThanZero(qty_num(ings[i]))
            THEN str_title(m)
            ELSE ScanIngredients(ings, i+1, lang)

CategoryKeys(cocktail) == {k \in DOMAIN cocktail : str_lower(k) = K_category}

get_main_alcohol(cocktail, use_override, lang) ==
    IF use_override /\ CategoryKeys(cocktail) # {}
    THEN get_category_name(cocktail[CHOOSE k \in CategoryKeys(cocktail) : TRUE], lang)
    ELSE ScanIngredients(IngredientsOf(cocktail), 1, lang)

(***************************************************************************)
(* The deployment: the catalog file, the password, the request inputs.     *)
(***************************************************************************)
rum == <<"r","u","m">>
rhum == <<"r","h","u","m">>
lime == <<"l","i","m","e">>
ice == <<"i","c","e">>
K_enabled == <<"e","n","a","b","l","e","d">>
K_is_override == <<"i","s","_","o","v","e","r","r","i","d","e">>

\* yaml.safe_load(COCKTAILS_FILE)['cocktails']: immutable per deployment.
Catalog == <<
    (K_name :> "Daiquiri" @@
     K_ingredients :> <<
        [name |-> PyDict([en |-> rum, fr |-> rhum]), qty |-> PyStr(<<"2","o","z">>)],
        [name |-> PyStr(lime), qty |-> PyStr(<<"1","o","z">>)] >>),
    (K_name :> "Caipirinha" @@
     K_Category :> PyDict([en |-> <<"S","o","u","r","s">>]) @@
     K_ingredients :> <<
        [name |-> PyStr(lime), qty |-> PyInt(1)] >>),
    (K_name :> "Virgin") >>

\* os.environ.get('ADMIN_PASSWORD', 'admin')
ADMIN_PASSWORD == "admin"

Clients == {"c1"}
PasswordPool == {"admin", "guess"}
LangPool == {"en", "fr", "de"}
\* JSON bodies of the toggle requests: an object with or without 'name'.
IngredientRequests ==
    {EmptyDict} \cup {[name |-> n] : n \in {rum, lime, ice, <<>>}}
CocktailRequests ==
    {EmptyDict} \cup
    {[name |-> n] : n \in {"Daiquiri", "Caipirinha", "Virgin", "Negroni", ""}}
LanguageRequests == {EmptyDict} \cup {[lang |-> l] : l \in LangPool}

(***************************************************************************)
(* dicts                                                                   *)
(***************************************************************************)
DictPut(d, k, v) == [x \in DOMAIN d \cup {k} |-> IF x = k THEN v ELSE d[x]]
DictDel(d, k) == [x \in DOMAIN d \ {k} |-> d[x]]

(***************************************************************************)
(* State store                                                             *)
(***************************************************************************)
load_ingredients_state == ingredients_file
load_cocktail_overrides == overrides_file
save_ingredients_state(state) == ingredients_file' = state
save_cocktail_overrides(overrides) == overrides_file' = overrides

(***************************************************************************)
(* Availability resolver                                                   *)
(***************************************************************************)
\* The loop of lines 255-261 from ingredient i on.
RECURSIVE IngredientsAvailableFrom(_, _, _)
RECURSIVE IngredientsAvailableFrom_AbsentIsFalse(_, _, _)
IngredientsAvailableFrom_AbsentIsFalse(ings, i, ingredients_state) ==
    IF i > Len(ings) THEN TRUE
    ELSE IF ~Get(ingredients_state, get_ingredient_name(ings[i], "en"), FALSE)
         THEN FALSE
         ELSE IngredientsAvailableFrom_AbsentIsFalse(ings, i+1, ingredients_state)

IngredientsAvailableFrom(ings, i, ingredients_state) ==
    IF i > Len(ings) THEN TRUE
    ELSE IF ~Get(ingredients_state, get_ingredient_name(ings[i], "en"), TRUE)
         THEN FALSE
         ELSE IngredientsAvailableFrom(ings, i+1, ingredients_state)

compute_cocktail_enabled_IngredientsOnly(cocktail, ingredients_state, cocktail_overrides) ==
    IngredientsAvailableFrom(IngredientsOf(cocktail), 1, ingredients_state)

compute_cocktail_enabled(cocktail, ingredients_state, cocktail_overrides) ==
    IF cocktail[K_name] \in DOMAIN cocktail_overrides
    THEN cocktail_overrides[cocktail[K_name]]
    ELSE IngredientsAvailableFrom(IngredientsOf(cocktail), 1, ingredients_state)

\* load_cocktails(lang): every catalog cocktail with 'enabled' and
\* 'is_override' set and its ingredients given display_name and name_en.
load_cocktails(lang) ==
    [i \in 1..Len(Catalog) |->
        LET c == Catalog[i]
            shown == [j \in 1..Len(IngredientsOf(c)) |->
                        LET ing == IngredientsOf(c)[j]
                        IN [name |-> ing.name,
                            qty |-> Get(ing, "qty", PyInt(0)),
                            display_name |-> get_ingredient_name(ing, lang),
                            name_en |-> get_ingredient_name_en(ing)]]
        IN (K_enabled :>
                compute_cocktail_enabled(c, load_ingredients_state,
                                         load_cocktail_overrides) @@
            K_is_override :> (c[K_name] \in DOMAIN load_cocktail_overrides) @@
            (IF K_ingredients \in DOMAIN c THEN K_ingredients :> shown ELSE <<>>) @@
            c)]

\* [c for c in cocktails if c.get('enabled', True)]
EnabledOnly(cocktails) == SelectSeq(cocktails, LAMBDA c : Get(c, K_enabled, TRUE))

\* What a page or a list shows of the cocktails handed to it.  The display
\* grouping and ordering (group_cocktails_by_alcohol, the templates) read
\* nothing but these cocktails and write nothing.
Shown(cocktails) ==
    [i \in 1..Len(cocktails) |->
        [name |-> cocktails[i][K_name],
         enabled |-> Get(cocktails[i], K_enabled, TRUE),
         is_override |-> cocktails[i][K_is_override]]]

\* sorted set of every ingredient's English name (as a set)
get_all_ingredients ==
    UNION {{get_ingredient_name(IngredientsOf(Catalog[i])[j], "en") :
                j \in 1..Len(IngredientsOf(Catalog[i]))} : i \in 1..Len(Catalog)}

(***************************************************************************)
(* Sessions and responses                                                  *)
(***************************************************************************)
\* session.get('authenticated')
Authenticated(c) == Get(session[c], "authenticated", FALSE)
SessionLang(c) == Get(session[c], "lang", "fr")

Respond(c, route, status, body) ==
    response' = [client |-> c, route |-> route, status |-> status, body |-> body]

Rejected_PathOnly(c, route, is_json, is_api_path) ==
    IF is_api_path
    THEN Respond(c, route, 401, "Authentication required")
    ELSE Respond(c, route, 302, "login")

\* login_required: what an unauthenticated request gets.
Rejected(c, route, is_json, is_api_path) ==
    IF is_json \/ is_api_path
    THEN Respond(c, route, 401, "Authentication required")
    ELSE Respond(c, route, 302, "login")

(***************************************************************************)
(* toggle_ingredient and toggle_cocktail: the computations                 *)
(***************************************************************************)
NewIngredientState_NotFlipped(ingredients_state, ingredient_name) ==
    Get(ingredients_state, ingredient_name, TRUE)

\* Lines 401-402: new_state = not ingredients_state.get(name, True)
NewIngredientState(ingredients_state, ingredient_name) ==
    ~Get(ingredients_state, ingredient_name, TRUE)

\* Lines 414-416
UsesIngredient(cocktail, ingredient_name) ==
    \E j \in 1..Len(IngredientsOf(cocktail)) :
        get_ingredient_name(IngredientsOf(cocktail)[j], "en") = ingredient_name

cocktails_to_check(ingredient_name) ==
    SelectSeq(Catalog, LAMBDA c : UsesIngredient(c, ingredient_name))

all_available_Always(cocktail, ingredients_state) == TRUE

all_available_Never(cocktail, ingredients_state) == FALSE

\* Lines 424-427
all_available(cocktail, ingredients_state) ==
    \A j \in 1..Len(IngredientsOf(cocktail)) :
        Get(ingredients_state,
            get_ingredient_name(IngredientsOf(cocktail)[j], "en"), TRUE)

\* The loop of lines 419-430 from cocktail i of the list on.
RECURSIVE ClearOverridesFrom(_, _, _, _)
ClearOverridesFrom(to_check, i, ingredients_state, cocktail_overrides) ==
    IF i > Len(to_check) THEN cocktail_overrides
    ELSE LET cocktail_name == to_check[i][K_name]
             cleared ==
                IF /\ cocktail_name \in DOMAIN cocktail_overrides
                   /\ all_available(to_check[i], ingredients_state)
                THEN DictDel(cocktail_overrides, cocktail_name)
                ELSE cocktail_overrides
         IN ClearOverridesFrom(to_check, i+1, ingredients_state, cleared)

ClearedOverrides(ingredient_name, ingredients_state, cocktail_overrides) ==
    ClearOverridesFrom(cocktails_to_check(ingredient_name), 1,
                       ingredients_state, cocktail_overrides)

\* Line 453
cocktail_names == {Catalog[i][K_name] : i \in 1..Len(Catalog)}

\* Line 464: next((c for c in cocktails if c['name'] == cocktail_name), None)
CocktailNamed(cocktail_name) ==
    Catalog[CHOOSE i \in 1..Len(Catalog) :
                /\ Catalog[i][K_name] = cocktail_name
                /\ \A j \in 1..(i-1) : Catalog[j][K_name] # cocktail_name]

\* Line 468
current_enabled(cocktail_name, ingredients_state, cocktail_overrides) ==
    compute_cocktail_enabled(CocktailNamed(cocktail_name),
                             ingredients_state, cocktail_overrides)

ToggledOverrides_NotNegated(cocktail_name, enabled, cocktail_overrides) ==
    DictPut(cocktail_overrides, cocktail_name, enabled)

ToggledOverrides_RemovesExisting(cocktail_name, enabled, cocktail_overrides) ==
    IF cocktail_name \in DOMAIN cocktail_overrides
    THEN DictDel(cocktail_overrides, cocktail_name)
    ELSE DictPut(cocktail_overrides, cocktail_name, ~enabled)

\* Line 471: cocktail_overrides[cocktail_name] = not current_enabled
ToggledOverrides(cocktail_name, enabled, cocktail_overrides) ==
    DictPut(cocktail_overrides, cocktail_name, ~enabled)

(***************************************************************************)
(* The request handlers, each served from start to end                     *)
(***************************************************************************)
files == <<ingredients_file, overrides_file>>
others == <<req, cocktail_in, lang_in, group>>

\* /health, /healthz: the catalog file exists and parses.
Health(c) ==
    /\ Respond(c, "/health", 200, "healthy")
    /\ UNCHANGED <<files, session, others>>

\* /
Index(c) ==
    /\ LET lang == SessionLang(c)
           enabled_cocktails == EnabledOnly(load_cocktails(lang))
       IN Respond(c, "/", 200, Shown(enabled_cocktails))
    /\ UNCHANGED <<files, session, others>>

\* GET /login
LoginPage(c) ==
    /\ Respond(c, "/login", 200, "login.html")
    /\ UNCHANGED <<files, session, others>>

\* POST /login
Login(c, password) ==
    /\ IF password = ADMIN_PASSWORD
       THEN /\ session' = [session EXCEPT ![c] = DictPut(@, "authenticated", TRUE)]
            /\ Respond(c, "/login", 302, "admin")
       ELSE /\ Respond(c, "/login", 401, "Incorrect password")
            /\ UNCHANGED session
    /\ UNCHANGED <<files, others>>

\* /logout
Logout(c) ==
    /\ session' = [session EXCEPT ![c] = DictDel(@, "authenticated")]
    /\ Respond(c, "/logout", 302, "index")
    /\ UNCHANGED <<files, others>>

\* /admin
Admin(c, is_json) ==
    /\ IF ~Authenticated(c)
       THEN Rejected(c, "/admin", is_json, FALSE)
       ELSE LET lang == SessionLang(c)
            IN Respond(c, "/admin", 200,
                       [cocktails |-> Shown(load_cocktails(lang)),
                        ingredients |-> get_all_ingredients,
                        ingredients_state |-> load_ingredients_state])
    /\ UNCHANGED <<files, session, others>>

\* /api/state
get_state(c) ==
    /\ LET cocktails == load_cocktails(SessionLang(c))
       IN Respond(c, "/api/state", 200,
                  [n \in cocktail_names |->
                      \E i \in 1..Len(cocktails) :
                          cocktails[i][K_name] = n /\ Get(cocktails[i], K_enabled, TRUE)])
    /\ UNCHANGED <<files, session, others>>

\* POST /api/toggle-ingredient with the JSON object data
toggle_ingredient(c, data) ==
    /\ IF ~Authenticated(c)
       THEN /\ Rejected(c, "/api/toggle-ingredient", TRUE, TRUE)
            /\ UNCHANGED files
       ELSE IF "name" \notin DOMAIN data \/ data["name"] = <<>>
       THEN /\ Respond(c, "/api/toggle-ingredient", 400, "Ingredient name is required")
            /\ UNCHANGED files
       ELSE LET ingredient_name == data["name"]
                new_state == NewIngredientState(load_ingredients_state, ingredient_name)
                ingredients_state ==
                    DictPut(load_ingredients_state, ingredient_name, new_state)
            IN /\ IF new_state
                  THEN save_cocktail_overrides(
                           ClearedOverrides(ingredient_name, ingredients_state,
                                            load_cocktail_overrides))
                  ELSE UNCHANGED overrides_file
               /\ save_ingredients_state(ingredients_state)
               /\ Respond(c, "/api/toggle-ingredient", 200,
                          [success |-> TRUE, available |-> new_state])
    /\ UNCHANGED <<session, others>>

\* POST /api/toggle-cocktail with the JSON object data
toggle_cocktail(c, data) ==
    /\ IF ~Authenticated(c)
       THEN /\ Rejected(c, "/api/toggle-cocktail", TRUE, TRUE)
            /\ UNCHANGED files
       ELSE IF "name" \notin DOMAIN data \/ data["name"] = ""
       THEN /\ Respond(c, "/api/toggle-cocktail", 400, "Cocktail name is required")
            /\ UNCHANGED files
       ELSE IF data["name"] \notin cocktail_names
       THEN /\ Respond(c, "/api/toggle-cocktail", 404, "Cocktail not found")
            /\ UNCHANGED files
       ELSE LET enabled == current_enabled(data["name"], load_ingredients_state,
                                           load_cocktail_overrides)
            IN /\ save_cocktail_overrides(
                      ToggledOverrides(data["name"], enabled, load_cocktail_overrides))
               /\ UNCHANGED ingredients_file
               /\ Respond(c, "/api/toggle-cocktail", 200,
                          [success |-> TRUE, enabled |-> ~enabled, is_override |-> TRUE])
    /\ UNCHANGED <<session, others>>

\* POST /api/set-language
set_language(c, data) ==
    /\ LET lang == Get(data, "lang", "en")
       IN IF lang \notin {"en", "fr"}
          THEN /\ Respond(c, "/api/set-language", 400, "Invalid language")
               /\ UNCHANGED session
          ELSE /\ session' = [session EXCEPT ![c] = DictPut(@, "lang", lang)]
               /\ Respond(c, "/api/set-language", 200, [success |-> TRUE, lang |-> lang])
    /\ UNCHANGED <<files, others>>

\* /api/cocktails/ordered: the names of the enabled cocktails (as a set; the
\* display order is not modelled)
get_ordered_cocktails(c) ==
    /\ LET lang == SessionLang(c)
           enabled_cocktails == EnabledOnly(load_cocktails(lang))
       IN Respond(c, "/api/cocktails/ordered", 200,
                  {enabled_cocktails[i][K_name] : i \in 1..Len(enabled_cocktails)})
    /\ UNCHANGED <<files, session, others>>

\* /api/cocktail/<cocktail_name>
get_cocktail_detail(c, cocktail_name) ==
    /\ LET cocktails == load_cocktails(SessionLang(c))
           found == {i \in 1..Len(cocktails) : cocktails[i][K_name] = cocktail_name}
       IN IF found = {}
          THEN Respond(c, "/api/cocktail", 404, "Cocktail not found")
          ELSE LET cocktail == cocktails[CHOOSE i \in found : \A j \in found : i <= j]
                   ings == IngredientsOf(cocktail)
               IN Respond(c, "/api/cocktail", 200,
                          [name |-> cocktail[K_name],
                           ingredients |->
                              [j \in 1..Len(ings) |->
                                  [name |-> ings[j].display_name, qty |-> ings[j].qty]]])
    /\ UNCHANGED <<files, session, others>>

Workers == {"w1", "w2"}
Idle == [pc |-> "idle"]
NoResponse == [client |-> "none", route |-> "none", status |-> 0, body |-> "none"]

Init ==
    /\ ingredients_file = EmptyDict
    /\ overrides_file = EmptyDict
    /\ session = [c \in Clients |-> EmptyDict]
    /\ response = NoResponse
    /\ req = [w \in Workers |-> Idle]
    /\ cocktail_in = Catalog[1]
    /\ lang_in = "en"
    /\ group = <<>>

Next ==
    \E c \in Clients :
        \/ Health(c)
        \/ Index(c)
        \/ LoginPage(c)
        \/ \E password \in PasswordPool : Login(c, password)
        \/ Logout(c)
        \/ \E is_json \in BOOLEAN : Admin(c, is_json)
        \/ get_state(c)
        \/ \E data \in IngredientRequests : toggle_ingredient(c, data)
        \/ \E data \in CocktailRequests : toggle_cocktail(c, data)
        \/ \E data \in LanguageRequests : set_language(c, data)
        \/ get_ordered_cocktails(c)
        \/ \E n \in {"Daiquiri", "Negroni"} : get_cocktail_detail(c, n)

Spec == Init /\ [][Next]_vars

(***************************************************************************)
(* Concurrent requests.  Each worker serves one request at a time; a step  *)
(* is one access to a state file (a whole read or a whole write) with the  *)
(* computation around it.  There is no lock: the steps of the workers      *)
(* interleave freely.  A worker that has answered keeps the locals of its  *)
(* last request (pc = "returned") until it takes the next one.             *)
(***************************************************************************)
ConcIngredientRequests == {EmptyDict, [name |-> rum], [name |-> lime]}
ConcCocktailRequests == {[name |-> "Daiquiri"], [name |-> "Negroni"]}

Free(w) == req[w].pc \in {"idle", "returned"}

\* toggle_ingredient, lines 390-403: the checks, the read of the
\* availability file and the toggle in memory.
TI_Begin(w, c, data) ==
    /\ Free(w)
    /\ IF ~Authenticated(c)
       THEN /\ Rejected(c, "/api/toggle-ingredient", TRUE, TRUE)
            /\ UNCHANGED req
       ELSE IF "name" \notin DOMAIN data \/ data["name"] = <<>>
       THEN /\ Respond(c, "/api/toggle-ingredient", 400, "Ingredient name is required")
            /\ UNCHANGED req
       ELSE LET new_state == NewIngredientState(load_ingredients_state, data["name"])
            IN /\ req' = [req EXCEPT ![w] =
                            [pc |-> "toggled",
                             route |-> "/api/toggle-ingredient",
                             client |-> c,
                             name |-> data["name"],
                             loaded |-> load_ingredients_state,
                             new_state |-> new_state,
                             ingredients_state |->
                                DictPut(load_ingredients_state, data["name"], new_state)]]
               /\ UNCHANGED response
    /\ UNCHANGED <<files, session, cocktail_in, lang_in, group>>

\* Lines 406-430: the read of the overrides file and the clearing in memory.
TI_LoadOverrides(w) ==
    /\ req[w].pc = "toggled"
    /\ req[w].new_state
    /\ req' = [req EXCEPT ![w] =
                  [pc |-> "cleared", cocktail_overrides |->
                        ClearedOverrides(req[w].name, req[w].ingredients_state,
                                         load_cocktail_overrides)] @@ @]
    /\ UNCHANGED <<files, session, response, cocktail_in, lang_in, group>>

TI_SaveOverrides_BothDocuments(w) ==
    /\ req[w].pc = "cleared"
    /\ save_cocktail_overrides(req[w].cocktail_overrides)
    /\ save_ingredients_state(req[w].ingredients_state)
    /\ req' = [req EXCEPT ![w] = [pc |-> "saving"] @@ @]
    /\ UNCHANGED <<session, response, cocktail_in, lang_in, group>>

\* Line 433
TI_SaveOverrides(w) ==
    /\ req[w].pc = "cleared"
    /\ save_cocktail_overrides(req[w].cocktail_overrides)
    /\ req' = [req EXCEPT ![w] = [pc |-> "saving"] @@ @]
    /\ UNCHANGED <<ingredients_file, session, response, cocktail_in, lang_in, group>>

\* Lines 436-438: the write of the availability file and the answer.
TI_SaveIngredients(w) ==
    /\ \/ req[w].pc = "saving"
       \/ req[w].pc = "toggled" /\ ~req[w].new_state
    /\ save_ingredients_state(req[w].ingredients_state)
    /\ req' = [req EXCEPT ![w] = [pc |-> "returned", status |-> 200] @@ @]
    /\ Respond(req[w].client, "/api/toggle-ingredient", 200,
               [success |-> TRUE, available |-> req[w].new_state])
    /\ UNCHANGED <<overrides_file, session, cocktail_in, lang_in, group>>

\* toggle_cocktail, lines 442-459: the checks and the read of the overrides.
TC_Begin(w, c, data) ==
    /\ Free(w)
    /\ IF ~Authenticated(c)
       THEN /\ Rejected(c, "/api/toggle-cocktail", TRUE, TRUE)
            /\ UNCHANGED req
       ELSE IF "name" \notin DOMAIN data \/ data["name"] = ""
       THEN /\ Respond(c, "/api/toggle-cocktail", 400, "Cocktail name is required")
            /\ UNCHANGED req
       ELSE IF data["name"] \notin cocktail_names
       THEN /\ Respond(c, "/api/toggle-cocktail", 404, "Cocktail not found")
            /\ UNCHANGED req
       ELSE /\ req' = [req EXCEPT ![w] =
                         [pc |-> "overrides_loaded",
                          route |-> "/api/toggle-cocktail",
                          client |-> c,
                          name |-> data["name"],
                          cocktail_overrides |-> load_cocktail_overrides]]
            /\ UNCHANGED response
    /\ UNCHANGED <<files, session, cocktail_in, lang_in, group>>

\* Lines 460-471: the read of the availability file and the new override.
TC_LoadIngredients(w) ==
    /\ req[w].pc = "overrides_loaded"
    /\ LET enabled == current_enabled(req[w].name, load_ingredients_state,
                                      req[w].cocktail_overrides)
       IN req' = [req EXCEPT ![w] =
                     [pc |-> "override_set",
                      enabled |-> ~enabled,
                      cocktail_overrides |->
                         ToggledOverrides(req[w].name, enabled,
                                          req[w].cocktail_overrides)] @@ @]
    /\ UNCHANGED <<files, session, response, cocktail_in, lang_in, group>>

\* Lines 474-480: the write of the overrides file and the answer.
TC_Save(w) ==
    /\ req[w].pc = "override_set"
    /\ save_cocktail_overrides(req[w].cocktail_overrides)
    /\ req' = [req EXCEPT ![w] = [pc |-> "returned", status |-> 200] @@ @]
    /\ Respond(req[w].client, "/api/toggle-cocktail", 200,
               [success |-> TRUE, enabled |-> req[w].enabled, is_override |-> TRUE])
    /\ UNCHANGED <<ingredients_file, session, cocktail_in, lang_in, group>>

NextConcurrent ==
    \/ \E c \in Clients : Login(c, ADMIN_PASSWORD)
    \/ \E c \in Clients : get_state(c)
    \/ \E w \in Workers :
        \/ \E c \in Clients : \E data \in ConcIngredientRequests : TI_Begin(w, c, data)
        \/ TI_LoadOverrides(w)
        \/ TI_SaveOverrides(w)
        \/ TI_SaveIngredients(w)
        \/ \E c \in Clients : \E data \in ConcCocktailRequests : TC_Begin(w, c, data)
        \/ TC_LoadIngredients(w)
        \/ TC_Save(w)

SpecConcurrent == Init /\ [][NextConcurrent]_vars

(***************************************************************************)
(* The classifier on its own: get_main_alcohol applied to a cocktail drawn *)
(* from a bounded set of recipes.                                          *)
(***************************************************************************)
MaxIngredients == 2

WhiteRum == <<"W","h","i","t","e"," ","R","u","m">>

ClassifierNames ==
    {PyStr(lime), PyDict([en |-> rum, fr |-> rhum]), PyStr(WhiteRum)}

ClassifierQuantities ==
    {PyStr(<<"2","o","z">>), PyStr(<<"2"," ","o","z">>), PyInt(0),
     PyStr(<<"t","o","p">>), PyStr(<<"1"," ","d","a","s","h">>),
     PyStr(<<"-","1">>)}

ClassifierIngredients ==
    {[name |-> n, qty |-> q] : n \in ClassifierNames, q \in ClassifierQuantities}

ClassifierRecipes ==
    UNION {[1..k -> ClassifierIngredients] : k \in 0..MaxIngredients}

ClassifierCategories ==
    {<<>>, K_Category :> PyDict([en |-> <<"S","o","u","r","s">>,
                                 fr |-> <<"A","c","i","d","e","s">>])}

ClassifierCocktails ==
    {(K_name :> "Test" @@ K_ingredients :> r) @@ cat :
        r \in ClassifierRecipes, cat \in ClassifierCategories}

InitClassifier ==
    /\ ingredients_file = EmptyDict
    /\ overrides_file = EmptyDict
    /\ session = [c \in Clients |-> EmptyDict]
    /\ response = NoResponse
    /\ req = [w \in Workers |-> Idle]
    /\ cocktail_in \in ClassifierCocktails
    /\ lang_in \in {"en", "fr"}
    /\ group = <<>>

Classify ==
    /\ group = <<>>
    /\ group' = get_main_alcohol(cocktail_in, TRUE, lang_in)
    /\ UNCHANGED <<files, session, response, req, cocktail_in, lang_in>>

NextClassifier == Classify

SpecClassifier == InitClassifier /\ [][NextClassifier]_vars

(***************************************************************************)
(* Vocabulary of the properties                                            *)
(***************************************************************************)
CatalogCocktail(n) == Catalog[CHOOSE i \in 1..Len(Catalog) : Catalog[i][K_name] = n]

\* The English names of the ingredients of catalog cocktail n.
IngredientNames(n) ==
    LET ings == IngredientsOf(CatalogCocktail(n))
    IN {get_ingredient_name(ings[j], "en") : j \in 1..Len(ings)}

\* x is available in the availability document avail (absent counts as true).
Available(avail, x) == x \notin DOMAIN avail \/ avail[x]

FullyAvailable(avail, n) == \A x \in IngredientNames(n) : Available(avail, x)

\* What load_cocktails reports of catalog cocktail n.
Reported(n) ==
    LET i == CHOOSE k \in 1..Len(Catalog) : Catalog[k][K_name] = n
        loaded == load_cocktails("en")[i]
    IN [enabled |-> loaded[K_enabled], is_override |-> loaded[K_is_override]]

ToggleIngredientDone(available) ==
    /\ response.route = "/api/toggle-ingredient"
    /\ response.status = 200
    /\ response.body.available = available

ToggleCocktailDone ==
    /\ response.route = "/api/toggle-cocktail"
    /\ response.status = 200

(***************************************************************************)
(* C1: compute_cocktail_enabled returns the override value when the        *)
(* cocktail's name is a key of the overrides; otherwise it returns true    *)
(* exactly when every ingredient maps to true in the availability          *)
(* document, an absent name counting as true (a cocktail with no           *)
(* ingredients and no override is enabled).                                *)
(***************************************************************************)
C1_ResolverContract ==
    \A n \in cocktail_names :
        LET got == compute_cocktail_enabled(CatalogCocktail(n),
                                            ingredients_file, overrides_file)
        IN IF n \in DOMAIN overrides_file
           THEN got = overrides_file[n]
           ELSE got = (\A x \in IngredientNames(n) :
                          x \notin DOMAIN ingredients_file \/ ingredients_file[x])

\* An override beats an unavailable ingredient, an absent ingredient counts
\* as available, and the cocktail without ingredients is enabled.
C1_Witness ==
    /\ "Daiquiri" \in DOMAIN overrides_file /\ overrides_file["Daiquiri"]
    /\ lime \in DOMAIN ingredients_file /\ ~ingredients_file[lime]
    /\ rum \notin DOMAIN ingredients_file
    /\ "Caipirinha" \notin DOMAIN overrides_file
    /\ ~compute_cocktail_enabled(CatalogCocktail("Caipirinha"),
                                 ingredients_file, overrides_file)
    /\ "Virgin" \notin DOMAIN overrides_file
    /\ compute_cocktail_enabled(CatalogCocktail("Virgin"),
                                ingredients_file, overrides_file)

(***************************************************************************)
(* C2: once toggle-cocktail has set an override on a cocktail, the         *)
(* cocktail is reported with enabled equal to the override value and       *)
(* is_override true in every later state, through any toggle-ingredient    *)
(* requests, for as long as the entry is not removed and toggle-cocktail   *)
(* is not applied to the cocktail again.                                   *)
(***************************************************************************)
C2_OverridePrecedence ==
    [][\A n \in cocktail_names :
          n \in DOMAIN overrides_file'
            => LET after == Reported(n)'
               IN \* reported as the override says, from the request that sets it on
                  /\ after.enabled = overrides_file'[n]
                  /\ after.is_override
                  \* and only toggle-cocktail on n changes the value of the entry
                  /\ (/\ n \in DOMAIN overrides_file
                      /\ \A c \in Clients : ~toggle_cocktail(c, [name |-> n]))
                        => overrides_file'[n] = overrides_file[n]
      ]_vars

\* Override true, an ingredient unavailable, and an ingredient toggled since.
C2_Witness ==
    /\ "Daiquiri" \in DOMAIN overrides_file /\ overrides_file["Daiquiri"]
    /\ rum \in DOMAIN ingredients_file /\ ~ingredients_file[rum]
    /\ ToggleIngredientDone(FALSE)
    /\ Reported("Daiquiri").enabled
    /\ Reported("Daiquiri").is_override

(***************************************************************************)
(* C3: a toggle-ingredient request that makes X available removes the      *)
(* override of exactly the cocktails that contain X, have an override and  *)
(* have every ingredient available under the new availability; every       *)
(* other override entry is unchanged.                                      *)
(***************************************************************************)
C3_ClearsExactlyStale ==
    [][\A c \in Clients : \A x \in {rum, lime, ice} :
          (toggle_ingredient(c, [name |-> x]) /\ ToggleIngredientDone(TRUE)')
            => LET stale == {n \in DOMAIN overrides_file :
                                /\ x \in IngredientNames(n)
                                /\ FullyAvailable(ingredients_file', n)}
               IN /\ DOMAIN overrides_file' = DOMAIN overrides_file \ stale
                  /\ \A n \in DOMAIN overrides_file' :
                        overrides_file'[n] = overrides_file[n]
      ]_vars

\* lime has just become available: the override of Caipirinha is gone, that
\* of Daiquiri (rum still unavailable) and that of Virgin are kept.
C3_Witness ==
    /\ ToggleIngredientDone(TRUE)
    /\ lime \in DOMAIN ingredients_file /\ ingredients_file[lime]
    /\ rum \in DOMAIN ingredients_file /\ ~ingredients_file[rum]
    /\ "Caipirinha" \notin DOMAIN overrides_file
    /\ "Daiquiri" \in DOMAIN overrides_file
    /\ "Virgin" \in DOMAIN overrides_file

(***************************************************************************)
(* C4: toggle-cocktail on a catalog cocktail sets its override to the      *)
(* negation of its current effective enabled state: afterwards its enabled *)
(* state is the opposite, it has an override, the response's 'enabled' is  *)
(* the new state, and the availability document and every other            *)
(* cocktail's override are unchanged.                                      *)
(***************************************************************************)
C4_ToggleCocktailFlips ==
    [][\A c \in Clients : \A n \in cocktail_names :
          (toggle_cocktail(c, [name |-> n]) /\ Authenticated(c))
            => /\ Reported(n)'.enabled = ~Reported(n).enabled
               /\ Reported(n)'.is_override
               /\ n \in DOMAIN overrides_file'
               /\ overrides_file'[n] = ~Reported(n).enabled
               /\ response'.status = 200
               /\ response'.body.enabled = Reported(n)'.enabled
               /\ ingredients_file' = ingredients_file
               /\ \A m \in cocktail_names \ {n} :
                     /\ (m \in DOMAIN overrides_file') = (m \in DOMAIN overrides_file)
                     /\ m \in DOMAIN overrides_file
                           => overrides_file'[m] = overrides_file[m]
      ]_vars

\* A cocktail whose ingredients are all available has been forced off while
\* another cocktail keeps its override.
C4_Witness ==
    /\ ToggleCocktailDone
    /\ response.body.enabled = FALSE
    /\ "Daiquiri" \in DOMAIN overrides_file /\ ~overrides_file["Daiquiri"]
    /\ FullyAvailable(ingredients_file, "Daiquiri")
    /\ "Caipirinha" \in DOMAIN overrides_file
    /\ ingredients_file # EmptyDict

(***************************************************************************)
(* C5: an override entry stays in the overrides document until a           *)
(* toggle-ingredient request that makes an ingredient available clears     *)
(* it: a toggle-ingredient that makes an ingredient unavailable leaves the *)
(* overrides unchanged, toggle-cocktail never removes an entry, and every  *)
(* request other than the two toggles leaves both documents unchanged.     *)
(***************************************************************************)
ToggleRoutes == {"/api/toggle-ingredient", "/api/toggle-cocktail"}

C5_OverridesPersist ==
    [][/\ (\E n \in DOMAIN overrides_file : n \notin DOMAIN overrides_file')
            => ToggleIngredientDone(TRUE)'
       /\ (response'.route = "/api/toggle-ingredient" /\ ~ToggleIngredientDone(TRUE)')
            => overrides_file' = overrides_file
       /\ response'.route = "/api/toggle-cocktail"
            => DOMAIN overrides_file \subseteq DOMAIN overrides_file'
       /\ response'.route \notin ToggleRoutes
            => files' = files
      ]_vars

\* An ingredient has just been made unavailable and the overrides set
\* before are all there.
C5_Witness ==
    /\ ToggleIngredientDone(FALSE)
    /\ DOMAIN overrides_file = cocktail_names

(***************************************************************************)
(* C6: for a cocktail with override true whose only unavailable ingredient *)
(* is X, a toggle-ingredient request on X removes the override and the     *)
(* cocktail is enabled before and after: afterwards enabled is true with   *)
(* is_override false.                                                      *)
(***************************************************************************)
OnlyBlocker(n, x) ==
    /\ x \in IngredientNames(n)
    /\ ~Available(ingredients_file, x)
    /\ \A y \in IngredientNames(n) \ {x} : Available(ingredients_file, y)

C6_BlockerResolved ==
    [][\A c \in Clients : \A n \in cocktail_names : \A x \in {rum, lime, ice} :
          (/\ toggle_ingredient(c, [name |-> x])
           /\ Authenticated(c)
           /\ n \in DOMAIN overrides_file /\ overrides_file[n]
           /\ OnlyBlocker(n, x))
            => /\ Reported(n).enabled
               /\ n \notin DOMAIN overrides_file'
               /\ Reported(n)'.enabled
               /\ ~Reported(n)'.is_override
               /\ FullyAvailable(ingredients_file', n)
      ]_vars

\* Daiquiri, once forced on, is enabled by its ingredients alone right after
\* an ingredient became available.
C6_Witness ==
    /\ ToggleIngredientDone(TRUE)
    /\ rum \in DOMAIN ingredients_file /\ ingredients_file[rum]
    /\ lime \in DOMAIN ingredients_file /\ ingredients_file[lime]
    /\ "Daiquiri" \notin DOMAIN overrides_file
    /\ Reported("Daiquiri").enabled
    /\ ~Reported("Daiquiri").is_override
    /\ "Virgin" \in DOMAIN overrides_file

(***************************************************************************)
(* C7: an API toggle call naming an unknown item is rejected: toggle-      *)
(* cocktail with a name that is no catalog cocktail, and toggle-ingredient *)
(* with a name that is no ingredient of any catalog cocktail (or with a    *)
(* missing or empty name), each return a 400 or 404 response and leave     *)
(* both state documents unchanged.                                         *)
(***************************************************************************)
C7_UnknownNamesRejected ==
    [][\A c \in Clients :
          /\ \A data \in IngredientRequests :
                (/\ toggle_ingredient(c, data)
                 /\ Authenticated(c)
                 /\ \/ "name" \notin DOMAIN data
                    \/ data["name"] = <<>>
                    \/ data["name"] \notin get_all_ingredients)
                  => /\ response'.status \in {400, 404}
                     /\ files' = files
          /\ \A data \in CocktailRequests :
                (/\ toggle_cocktail(c, data)
                 /\ Authenticated(c)
                 /\ \/ "name" \notin DOMAIN data
                    \/ data["name"] \notin cocktail_names)
                  => /\ response'.status \in {400, 404}
                     /\ files' = files
      ]_vars

(***************************************************************************)
(* C8 as stated: a request to /api/toggle-ingredient or                    *)
(* /api/toggle-cocktail without an authenticated session returns 401 and   *)
(* changes neither document, an unauthenticated request to /admin          *)
(* redirects to the login page, a session becomes authenticated only by a  *)
(* login POST with the correct password and is no longer authenticated     *)
(* after logout.                                                           *)
(***************************************************************************)
UnauthenticatedToggles(c) ==
    /\ \A data \in IngredientRequests :
          (toggle_ingredient(c, data) /\ ~Authenticated(c))
            => response'.status = 401 /\ files' = files
    /\ \A data \in CocktailRequests :
          (toggle_cocktail(c, data) /\ ~Authenticated(c))
            => response'.status = 401 /\ files' = files

SessionLifecycle(c) ==
    /\ (~Authenticated(c) /\ Authenticated(c)') => Login(c, ADMIN_PASSWORD)
    /\ Logout(c) => ~Authenticated(c)'

C8_AdminAlwaysRedirects ==
    [][\A c \in Clients :
          /\ UnauthenticatedToggles(c)
          /\ \A is_json \in BOOLEAN :
                (Admin(c, is_json) /\ ~Authenticated(c))
                  => response'.status = 302 /\ response'.body = "login"
          /\ SessionLifecycle(c)
      ]_vars

(***************************************************************************)
(* C8 as amended: the same, except that an unauthenticated request to      *)
(* /admin redirects to the login page only when it is not a JSON request   *)
(* (request.is_json); a JSON request to /admin gets 401.                   *)
(***************************************************************************)
C8_AuthenticationGate ==
    [][\A c \in Clients :
          /\ UnauthenticatedToggles(c)
          /\ \A is_json \in BOOLEAN :
                (Admin(c, is_json) /\ ~Authenticated(c))
                  => IF is_json
                     THEN response'.status = 401
                     ELSE response'.status = 302 /\ response'.body = "login"
          /\ SessionLifecycle(c)
      ]_vars

\* A toggle is refused after a logout, with an override set while logged in.
C8_Witness ==
    /\ response.route \in ToggleRoutes
    /\ response.status = 401
    /\ \A c \in Clients : ~Authenticated(c)
    /\ overrides_file # EmptyDict
    /\ ingredients_file # EmptyDict

(***************************************************************************)
(* C9: toggle requests read, modify and write the state documents without  *)
(* locking, so two concurrent toggle-ingredient requests on different      *)
(* ingredients that both load the availability document before either      *)
(* saves lose an update: both report success and the stored availability   *)
(* is the document of the later save, which reflects only one toggle.      *)
(***************************************************************************)
IngredientToggleAnswered(w) ==
    /\ req[w].pc = "returned"
    /\ req[w].route = "/api/toggle-ingredient"
    /\ req[w].status = 200

Reflected(w) == Get(ingredients_file, req[w].name, TRUE) = req[w].new_state

C9_LostUpdate ==
    \A p \in Workers : \A q \in Workers \ {p} :
        (/\ IngredientToggleAnswered(p)
         /\ IngredientToggleAnswered(q)
         /\ req[p].name # req[q].name
         \* both read the same document: neither saw the other's save
         /\ req[p].loaded = req[q].loaded)
          => /\ ingredients_file \in {req[p].ingredients_state, req[q].ingredients_state}
             /\ Reflected(p) # Reflected(q)

\* rum and lime were both toggled off from the same document; only lime's
\* toggle is stored.
C9_Witness ==
    /\ IngredientToggleAnswered("w1")
    /\ IngredientToggleAnswered("w2")
    /\ req["w1"].name = rum /\ ~req["w1"].new_state
    /\ req["w2"].name = lime /\ ~req["w2"].new_state
    /\ req["w1"].loaded = req["w2"].loaded
    /\ Available(ingredients_file, rum)
    /\ ~Available(ingredients_file, lime)

(***************************************************************************)
(* Vocabulary of the classifier's properties                               *)
(***************************************************************************)
DeclaresCategory(cocktail) ==
    \E k \in DOMAIN cocktail : str_lower(k) = K_category

\* The whitelist terms the English name of the ingredient contains.
TermsMatched(ingredient) ==
    {i \in 1..Len(alcohol_whitelist) :
        str_contains(alcohol_whitelist[i],
                     str_lower(get_ingredient_name(ingredient, "en")))}

\* The longest of them, the first of the list among those of equal length.
TermMatched(ingredient) ==
    alcohol_whitelist[
        CHOOSE i \in TermsMatched(ingredient) :
            \A j \in TermsMatched(ingredient) :
                \/ Len(alcohol_whitelist[j]) < Len(alcohol_whitelist[i])
                \/ Len(alcohol_whitelist[j]) = Len(alcohol_whitelist[i]) /\ i <= j]

IsOtherLabel(label, lang) == label = (IF lang = "fr" THEN Autre ELSE Other)

Classified == group # <<>> /\ ~DeclaresCategory(cocktail_in)

(***************************************************************************)
(* C10 as stated: for a cocktail that declares no category,                *)
(* get_main_alcohol returns the display form of the whitelist term matched *)
(* by the first ingredient, in declaration order, that matches the         *)
(* whitelist and has a parsed quantity greater than zero; it returns       *)
(* 'Other' ('Autre' when lang is fr) exactly when no ingredient matches    *)
(* the whitelist or every matching ingredient has parsed quantity zero.    *)
(***************************************************************************)
C10_OtherIffQuantitiesZero ==
    Classified =>
        LET ings == IngredientsOf(cocktail_in)
            matching == {i \in 1..Len(ings) : TermsMatched(ings[i]) # {}}
        IN IsOtherLabel(group, lang_in)
              <=> \A i \in matching :
                      qty_num(ings[i]).n = 0 /\ qty_num(ings[i]).d # 0

(***************************************************************************)
(* C10 as amended: the same, with 'Other' ('Autre') returned exactly when  *)
(* no ingredient matches the whitelist or every matching ingredient has a  *)
(* parsed quantity that is not greater than zero (zero or negative).       *)
(***************************************************************************)
C10_FirstPositiveMatch ==
    Classified =>
        LET ings == IngredientsOf(cocktail_in)
            matching == {i \in 1..Len(ings) : TermsMatched(ings[i]) # {}}
            qualifying == {i \in matching : qty_num(ings[i]).n > 0}
        IN /\ IsOtherLabel(group, lang_in) <=> qualifying = {}
           /\ qualifying # {}
                => LET first == CHOOSE i \in qualifying : \A j \in qualifying : i <= j
                   IN group = str_title(TermMatched(ings[first]))

\* The first ingredient matches with a quantity that parses to zero ("2oz"),
\* the second one decides: White Rum, "2 oz".
C10_Witness ==
    /\ Classified
    /\ Len(IngredientsOf(cocktail_in)) = 2
    /\ IngredientsOf(cocktail_in)[1] =
          [name |-> PyDict([en |-> rum, fr |-> rhum]), qty |-> PyStr(<<"2","o","z">>)]
    /\ IngredientsOf(cocktail_in)[2].qty = PyStr(<<"2"," ","o","z">>)
    /\ group = WhiteRum

(***************************************************************************)
(* Vocabulary of C11: the catalog's Daiquiri is the cocktail of the        *)
(* example, rum with quantity "2oz" and lime with quantity "1oz", no       *)
(* category.                                                               *)
(***************************************************************************)
Daiquiri == CatalogCocktail("Daiquiri")

\* The same recipe with the quantities written "2 oz" and "1 oz".
DaiquiriSpaced ==
    K_name :> "Daiquiri" @@
    K_ingredients :> <<
        [name |-> PyDict([en |-> rum, fr |-> rhum]), qty |-> PyStr(<<"2"," ","o","z">>)],
        [name |-> PyStr(lime), qty |-> PyStr(<<"1"," ","o","z">>)] >>

IsExampleCocktail ==
    /\ ~DeclaresCategory(Daiquiri)
    /\ Len(IngredientsOf(Daiquiri)) = 2
    /\ get_ingredient_name(IngredientsOf(Daiquiri)[1], "en") = rum
    /\ IngredientsOf(Daiquiri)[1].qty = PyStr(<<"2","o","z">>)
    /\ get_ingredient_name(IngredientsOf(Daiquiri)[2], "en") = lime
    /\ IngredientsOf(Daiquiri)[2].qty = PyStr(<<"1","o","z">>)

RumOnlyAvailable ==
    /\ IsExampleCocktail
    /\ "Daiquiri" \notin DOMAIN overrides_file
    /\ Available(ingredients_file, rum)
    /\ ~Available(ingredients_file, lime)

Rum == <<"R","u","m">>

(***************************************************************************)
(* C11 as stated: a cocktail with ingredients [rum with quantity "2oz",    *)
(* lime with quantity "1oz"], no category and no override, with rum        *)
(* available and lime unavailable, is reported with enabled=false and is   *)
(* classified into group "Rum".                                            *)
(***************************************************************************)
C11_DisabledInGroupRum ==
    RumOnlyAvailable =>
        /\ ~Reported("Daiquiri").enabled
        /\ \A lang \in {"en", "fr"} : get_main_alcohol(Daiquiri, TRUE, lang) = Rum

(***************************************************************************)
(* C11 as amended: that cocktail is reported with enabled=false (and no    *)
(* override) and is classified into group "Other" ("Autre" when lang is    *)
(* fr), because the token "2oz" is no number and the quantity parses as    *)
(* zero; with the quantities written "2 oz" and "1 oz" the group is "Rum". *)
(***************************************************************************)
C11_DisabledInGroupOther ==
    RumOnlyAvailable =>
        /\ ~Reported("Daiquiri").enabled
        /\ ~Reported("Daiquiri").is_override
        /\ \A lang \in {"en", "fr"} :
              /\ IsOtherLabel(get_main_alcohol(Daiquiri, TRUE, lang), lang)
              /\ get_main_alcohol(DaiquiriSpaced, TRUE, lang) = Rum

\* The admin page has listed the catalog in that state.
C11_Witness ==
    /\ RumOnlyAvailable
    /\ response.route = "/admin"
    /\ response.status = 200

(***************************************************************************)
(* Vocabulary of C12                                                       *)
(***************************************************************************)
\* Worker w has saved the overrides document and not yet the availability
\* document, and the availability document it is about to save makes
\* cocktail n fully available.
BetweenSaves(w, n) ==
    /\ req[w].pc = "saving"
    /\ n \notin DOMAIN overrides_file
    /\ FullyAvailable(req[w].ingredients_state, n)

(***************************************************************************)
(* C12: a toggle-ingredient request that makes X available saves the       *)
(* overrides document before the availability document, so the update is   *)
(* not atomic for readers.  For a cocktail n that is enabled before the     *)
(* request by an override true, with X its only unavailable ingredient:    *)
(* the save of the overrides leaves n reported disabled (no override, X    *)
(* still stored unavailable) although the pending availability document    *)
(* makes it fully available; a read of /api/state answers what the two     *)
(* documents hold at that moment, so between the saves it reports n        *)
(* disabled; and the save of the availability document makes n enabled     *)
(* again, without override.                                                *)
(***************************************************************************)
SavesOverrides(w) == req[w].pc = "cleared" /\ req'[w].pc = "saving"

SavesIngredients(w) == req[w].pc = "saving" /\ req'[w].pc = "returned"

\* A step of /api/state: no worker moves and the answer is the route's.
ReadsState ==
    /\ \A w \in Workers : req'[w].pc = req[w].pc
    /\ response'.route = "/api/state"

C12_TornRead ==
    [][/\ \A w \in Workers : \A n \in cocktail_names :
            /\ (/\ SavesOverrides(w)
                /\ n \in DOMAIN overrides_file
                /\ overrides_file[n]
                /\ OnlyBlocker(n, req[w].name)
                /\ req[w].loaded = ingredients_file)
                 => /\ Reported(n).enabled
                    /\ BetweenSaves(w, n)'
                    /\ ~Reported(n)'.enabled
                    /\ ~Reported(n)'.is_override
            /\ (/\ SavesIngredients(w)
                /\ BetweenSaves(w, n))
                 => /\ Reported(n)'.enabled
                    /\ ~Reported(n)'.is_override
       /\ \A n \in cocktail_names :
            ReadsState => response'.body[n] = Reported(n).enabled
      ]_vars

\* Daiquiri got override true while lime was unavailable (the second
\* worker's toggle-cocktail answered enabled), the first worker toggles lime
\* and is between its two saves, and /api/state has just reported Daiquiri
\* disabled.
C12_Witness ==
    /\ BetweenSaves("w1", "Daiquiri")
    /\ req["w1"].name = lime
    /\ req["w1"].loaded = ingredients_file
    /\ req["w2"].pc = "returned"
    /\ req["w2"].route = "/api/toggle-cocktail"
    /\ req["w2"].name = "Daiquiri"
    /\ req["w2"].enabled
    /\ response.route = "/api/state"
    /\ ~response.body["Daiquiri"]

====
